---- MODULE Spec2Model ----
(***************************************************************************)
(* peewee_migrate.migrator: the Migrator API, the Migration operation      *)
(* queue and the operations it holds, as a state machine.                  *)
(*                                                                         *)
(* A Python str is the sequence of its '_'-separated parts, so that        *)
(* '_'.join(parts) is concatenation and name + '_id' appends <<"id">>.     *)
(* None and '' are both the empty sequence.                                *)
(*                                                                         *)
(* One model class is migrated; its table keeps peewee's default name, so  *)
(* the name peewee derives for a declared index and make_index_name agree  *)
(* on the table part.  The class accessors that __del_field__ deletes      *)
(* with delattr are not part of the state.                                 *)
(*                                                                         *)
(* Three specifications: Spec, every Migrator call on one Migrator;        *)
(* ColumnsSpec, the calls that bring column descriptors, fields that are   *)
(* unique and indexed among their arguments; RouterSpec, the Router of     *)
(* the migrations directory and the history table over that Migrator,      *)
(* with the rollback command of peewee_migrate.cli.                        *)
(***************************************************************************)
EXTENDS Integers, Sequences, FiniteSets, TLC

\* ------------------------------------------------------------------ bounds
\* Migrator calls other than run() made on one Migrator; Router calls that
\* trigger run() or write a history row directly.
MaxCalls == 2
\* Longest *names / *fields argument list of one call.
MaxArgs == 2
\* Migration units in the migrations directory at one time.
MaxMigrations == 3

\* ------------------------------------------------------------------ strings
None == <<>>
TableName == <<"t">>
RelTable == <<"r">>
NameA == <<"a">>
NameB == <<"b">>
NameC == <<"c">>
NameD == <<"d">>
NameE == <<"e">>
ColAB == <<"a", "b">>
DefaultV == <<"v">>

RECURSIVE Join(_)
\* '_'.join(parts)
Join(parts) == IF parts = <<>> THEN <<>> ELSE Head(parts) \o Join(Tail(parts))

\* str.endswith('_id')
EndsWithId(s) == Len(s) > 1 /\ s[Len(s)] = "id"

\* playhouse.migrate.make_index_name(table_name, columns), for names below
\* the 64 character limit
make_index_name(table_name, columns) == Join(<<table_name>> \o columns)

\* ------------------------------------------------------------------ fields
\* A declared, not yet bound field: pw.CharField(), pw.CharField(unique=True),
\* pw.ForeignKeyField(Rel), pw.IntegerField(default=..), ...
Decl(cn, nl, un, ix, fk, df) ==
    [column_name |-> cn, null |-> nl, unique |-> un, index |-> ix, fk |-> fk,
     default |-> df]

PlainDecl == Decl(None, FALSE, FALSE, FALSE, FALSE, None)
UniqueDecl == Decl(None, FALSE, TRUE, FALSE, FALSE, None)
FkDecl == Decl(None, TRUE, FALSE, FALSE, TRUE, None)
\* a field declared with unique=True and index=True
UniqueIndexDecl == Decl(None, FALSE, TRUE, TRUE, FALSE, None)

FieldDecls == {PlainDecl, UniqueDecl, FkDecl}

\* Field.bind / ForeignKeyField.bind as called by Metadata.add_field: the name
\* is set, and a column name that was not given is derived from it
Bind(name, decl) ==
    [name |-> name,
     column_name |->
        IF decl.column_name # None THEN decl.column_name
        ELSE IF decl.fk /\ ~EndsWithId(name) THEN name \o <<"id">>
        ELSE name,
     null |-> decl.null, unique |-> decl.unique, index |-> decl.index,
     fk |-> decl.fk, default |-> decl.default]

\* the model class as declared: a, b (unique), c stored in column a_b
InitFields ==
    << Bind(NameA, PlainDecl),
       Bind(NameB, UniqueDecl),
       Bind(NameC, Decl(ColAB, FALSE, FALSE, FALSE, FALSE, None)) >>

FieldNames(fs) == {fs[i].name : i \in 1..Len(fs)}

HasField(fs, name) == name \in FieldNames(fs)

\* model._meta.fields[name]
FieldOf(fs, name) == fs[CHOOSE i \in 1..Len(fs) : fs[i].name = name]

\* model._meta.combined: field names and column names together
InCombined(fs, v) ==
    \E i \in 1..Len(fs) : fs[i].name = v \/ fs[i].column_name = v

\* model._meta.combined[v].column_name; a column name wins over a field name
\* as it is written to the dict after it
CombinedColumn(fs, v) ==
    IF \E i \in 1..Len(fs) : fs[i].column_name = v THEN v
    ELSE FieldOf(fs, v).column_name

\* Metadata.remove_field(name)
remove_field(fs, name) == SelectSeq(fs, LAMBDA f : f.name # name)

\* Metadata.add_field(name, field): an existing field of that name is removed
\* first, the bound field goes last
add_field(fs, name, decl) == Append(remove_field(fs, name), Bind(name, decl))

\* ------------------------------------------------------------------ indexes
\* A Meta.indexes entry: (field names, unique)
IndexTuple(parts, unique) == [parts |-> parts, unique |-> unique]

\* the Meta.indexes a model class may declare
DeclaredIndexes ==
    { <<>>,
      << IndexTuple(<<NameA, NameB>>, FALSE), IndexTuple(<<NameC, NameA>>, FALSE) >>,
      << IndexTuple(<<NameC>>, FALSE), IndexTuple(<<NameA, NameB>>, FALSE) >> }

\* ------------------------------------------------------------------ state
VARIABLES
    dialect,    \* the database the Migrator was made for: postgres | sqlite
    orm,        \* Migrator.orm: the registered table names (each maps to the model)
    table_name, \* model._meta.table_name
    fields,     \* model._meta.fields, in order
    indexes,    \* model._meta.indexes
    queue,      \* Migrator.migration.ops
    log,        \* every state / database effect performed, in order
    last,       \* the last Migrator call: [call, err, names]; names is the set
                \* of names drop_columns was given, empty for any other call
    calls,      \* the number of calls made that count in MaxCalls
    addedIdx,   \* index names add_index was called for and drop_index was not
    scen,       \* fresh | adding | dropping | other: the calls made so far are
                \* none | add_columns only | add_columns then drop_columns of
                \* names added | anything else (run() apart)
    pending,    \* the column names added in scen adding that drop_columns has
                \* not been given yet
    files,      \* the migration units of the migrations directory, by name
    history,    \* the names in the history table, oldest row first
    rlast       \* the last Router call: [call, err, removed, applied]; for
                \* merge() removed lists the files deleted, in the order of
                \* the deletions, and applied is the number of history rows
                \* it found

routerVars == <<files, history, rlast>>

vars ==
    <<dialect, orm, table_name, fields, indexes, queue, log, last, calls, addedIdx, scen,
      pending, files, history, rlast>>

\* ------------------------------------------------------------------ operations
\* An operation object. cls: CreateTable | AddIndex (MigrateOperation
\* subclasses), Operation (playhouse.migrate.Operation), PlayhouseOperation (its
\* wrapper), function (a lambda).
Op(cls, method, table, name, extra, flag) ==
    [cls |-> cls, method |-> method, table |-> table, name |-> name,
     extra |-> extra, flag |-> flag]

\* a method of playhouse's SchemaMigrator decorated with @operation returns an
\* Operation and executes nothing
PwOp(method, table, name, extra, flag) ==
    Op("Operation", method, table, name, extra, flag)

\* What one call reads and writes, and the exception it raised
World(d, o, t, f, i, q, l) ==
    [dialect |-> d, orm |-> o, table |-> t, fields |-> f, indexes |-> i, queue |-> q, log |-> l,
     err |-> "none"]

Raise(w, e) == [w EXCEPT !.err = e]

Failed(w) == w.err # "none"

\* Migration.append
append(w, op) ==
    IF op.cls \in {"CreateTable", "AddIndex", "PlayhouseOperation"}
    THEN [w EXCEPT !.queue = Append(@, op)]
    ELSE IF op.cls = "Operation"
    THEN [w EXCEPT !.queue = Append(@, [op EXCEPT !.cls = "PlayhouseOperation"])]
    ELSE Raise(w, "NotImplementedError")

\* get_model: a table given by name is looked up in migrator.orm
get_model(w, byName) ==
    IF byName /\ w.table \notin w.orm THEN Raise(w, "KeyError") ELSE w

\* ------------------------------------------------------------------ run
\* op.state_forwards called with nargs arguments after self. Every class takes
\* exactly one, migrator; only CreateTable overrides the base method.
state_forwards(w, op, nargs) ==
    IF nargs # 1 THEN Raise(w, "TypeError")
    ELSE IF op.cls = "CreateTable"
    THEN [w EXCEPT !.orm = @ \cup {op.table},
                   !.log = Append(@, <<"state", op>>)]
    ELSE Raise(w, "NotImplementedError")

\* op.database_forwards(schema_migrator, None, None); rejected: the database
\* refuses the statement
database_forwards(w, op, rejected) ==
    IF op.cls = "AddIndex" THEN Raise(w, "NameError")
    ELSE IF op.method = "select_schema" /\ w.dialect # "postgres"
    THEN Raise(w, "NotImplementedError")
    ELSE IF rejected THEN Raise(w, "DatabaseError")
    ELSE [w EXCEPT !.log = Append(@, <<"db", op>>)]

RECURSIVE apply_from(_, _, _)
\* Migration.apply from position i on; the database rejects the statement of
\* position failAt (0: none)
apply_from(w, i, failAt) ==
    IF i > Len(w.queue) THEN w
    ELSE LET s == state_forwards(w, w.queue[i], 0)
         IN  IF Failed(s) THEN s
             ELSE LET d == database_forwards(s, w.queue[i], i = failAt)
                  IN  IF Failed(d) THEN d ELSE apply_from(d, i + 1, failAt)

apply(w, failAt) == apply_from(w, 1, failAt)

\* Migrator.clean
clean(w) == Raise(w, "NotImplementedError")

\* Migrator.run
run(w, failAt) ==
    LET a == apply(w, failAt)
    IN  IF Failed(a) THEN a ELSE clean(a)

\* ------------------------------------------------------------------ Migrator
\* one name=field pair of a **fields argument
Kw(name, field) == [name |-> name, field |-> field]

\* fs with the field called name replaced by f
SetField(fs, name, f) ==
    [i \in 1..Len(fs) |-> IF fs[i].name = name THEN f ELSE fs[i]]

\* _to_columns / AddIndex._resolve_columns: a KeyError on the first name that is
\* neither a field nor a column
Resolvable(fs, names) == \A i \in 1..Len(names) : InCombined(fs, names[i])

to_columns(fs, names) == [i \in 1..Len(names) |-> CombinedColumn(fs, names[i])]

\* create_table had it registered the table at the call
create_table_eager(w) ==
    append([w EXCEPT !.orm = @ \cup {w.table}],
           Op("CreateTable", "create_table", w.table, None, None, FALSE))

\* Migrator.create_table
create_table(w) ==
    append(w, Op("CreateTable", "create_table", w.table, None, None, FALSE))

\* SchemaMigrator.drop_table and SqliteMigrator.drop_table: a lambda, not an
\* Operation; SQLite drops without cascade
migrator_drop_table(d, table, cascade) ==
    Op("function", "drop_table", table, None, None, d # "sqlite" /\ cascade)

\* Migrator.drop_table
drop_table(w, byName, cascade) ==
    LET m == get_model(w, byName)
    IN  IF Failed(m) THEN m
        ELSE IF m.table \notin m.orm THEN Raise(m, "KeyError")
        ELSE append([m EXCEPT !.orm = @ \ {m.table}],
                    migrator_drop_table(m.dialect, m.table, cascade))

\* Migrator.python
python(w) == append(w, Op("function", "python", None, None, None, FALSE))

\* Migrator.sql
sql(w) == append(w, PwOp("sql", None, None, None, FALSE))

\* Migrator.add_index with AddIndex.from_model
add_index(w, byName, names, unique) ==
    LET m == get_model(w, byName)
    IN  IF Failed(m) THEN m
        ELSE IF ~Resolvable(m.fields, names) THEN Raise(m, "KeyError")
        ELSE append(m, Op("AddIndex", "add_index", m.table,
                          make_index_name(m.table, to_columns(m.fields, names)),
                          None, unique))

\* model.index(*_to_columns(index_parts), unique=unique)._name: the name peewee
\* generates for a declared index
generated_index_name(table, fs, entry) ==
    make_index_name(table, to_columns(fs, entry.parts))

RECURSIVE find_index(_, _, _, _, _)
\* the loop over model._meta.indexes: the first position whose index has the
\* name wanted, 0 when there is none, -1 when _to_columns raises KeyError on an
\* entry met before
find_index(table, fs, ixs, name, pos) ==
    IF pos > Len(ixs) THEN 0
    ELSE IF ~Resolvable(fs, ixs[pos].parts) THEN -1
    ELSE IF generated_index_name(table, fs, ixs[pos]) = name THEN pos
    ELSE find_index(table, fs, ixs, name, pos + 1)

\* list.pop(pos)
pop(s, pos) == SubSeq(s, 1, pos - 1) \o SubSeq(s, pos + 1, Len(s))

\* Migrator.drop_index
drop_index(w, byName, names) ==
    LET m == get_model(w, byName)
    IN  IF Failed(m) THEN m
        ELSE IF ~Resolvable(m.fields, names) THEN Raise(m, "KeyError")
        ELSE LET name == make_index_name(m.table, to_columns(m.fields, names))
                 q == append(m, PwOp("drop_index", m.table, name, None, FALSE))
                 pos == find_index(q.table, q.fields, q.indexes, name, 1)
             IN  IF Failed(q) THEN q
                 ELSE IF pos = -1 THEN Raise(q, "KeyError")
                 ELSE IF pos = 0 THEN Raise(q, "IndexNotFound")
                 ELSE [q EXCEPT !.indexes = pop(@, pos)]

RECURSIVE add_columns_from(_, _, _)
\* the loop of Migrator.add_columns from the i-th pair on
add_columns_from(w, kw, i) ==
    IF i > Len(kw) \/ Failed(w) THEN w
    ELSE LET f == Bind(kw[i].name, kw[i].field)
             a == [w EXCEPT !.fields = add_field(@, kw[i].name, kw[i].field)]
             c == append(a, PwOp("add_column", w.table, f.column_name, None, FALSE))
             u == IF Failed(c) \/ ~f.unique THEN c
                  ELSE append(c, PwOp("add_index", w.table,
                                      make_index_name(w.table, <<f.column_name>>),
                                      None, TRUE))
         IN  add_columns_from(u, kw, i + 1)

\* add_columns had it only queued the operations
add_columns_queued(w, byName, kw) ==
    LET m == get_model(w, byName)
    IN  IF Failed(m) THEN m
        ELSE [add_columns_from(m, kw, 1) EXCEPT !.fields = m.fields]

\* Migrator.add_columns
add_columns(w, byName, kw) ==
    LET m == get_model(w, byName)
    IN  IF Failed(m) THEN m ELSE add_columns_from(m, kw, 1)

\* change_columns had it queued the generic alter for every column
change_column_generic(w, name, decl) ==
    append([w EXCEPT !.fields = add_field(@, name, decl)],
           PwOp("change_column", w.table, Bind(name, decl).column_name, None, FALSE))

\* one pass of the loop of Migrator.change_columns
change_column(w, name, decl) ==
    LET known == HasField(w.fields, name)
        \* model._meta.fields.get(name, field): the new field itself when the
        \* column is unknown, read before add_field binds it
        old_fk == IF known THEN FieldOf(w.fields, name).fk ELSE decl.fk
        old_unique == IF known THEN FieldOf(w.fields, name).unique ELSE decl.unique
        old_column_name == IF known THEN FieldOf(w.fields, name).column_name
                           ELSE decl.column_name
        f == Bind(name, decl)
        a == [w EXCEPT !.fields = add_field(@, name, decl)]
        d == IF old_fk
             THEN append(a, PwOp("drop_foreign_key_constraint", w.table,
                                 old_column_name, None, FALSE))
             ELSE a
        r == IF Failed(d) \/ old_column_name = f.column_name THEN d
             ELSE append(d, PwOp("rename_column", w.table, old_column_name,
                                 f.column_name, FALSE))
    IN  IF Failed(r) THEN r
        ELSE IF f.fk
        THEN append(r, PwOp("add_foreign_key_constraint", w.table, f.column_name,
                            RelTable, FALSE))
        ELSE LET c == append(r, PwOp("change_column", w.table, f.column_name, None,
                                     FALSE))
             IN  IF Failed(c) \/ f.unique = old_unique THEN c
                 ELSE IF f.unique
                 THEN IF f.index THEN Raise(c, "AssertionError")
                      ELSE add_index(c, FALSE, <<f.name>>, TRUE)
                 ELSE drop_index(c, FALSE, <<f.name>>)

RECURSIVE change_columns_from(_, _, _)
change_columns_from(w, kw, i) ==
    IF i > Len(kw) \/ Failed(w) THEN w
    ELSE change_columns_from(change_column(w, kw[i].name, kw[i].field), kw, i + 1)

\* Migrator.change_columns
change_columns(w, byName, kw) ==
    LET m == get_model(w, byName)
    IN  IF Failed(m) THEN m ELSE change_columns_from(m, kw, 1)

\* Migrator.__del_field__
del_field(w, f) == [w EXCEPT !.fields = remove_field(@, f.name)]

RECURSIVE drop_columns_from(_, _, _)
\* the loop of Migrator.drop_columns over the fields selected
drop_columns_from(w, victims, i) ==
    IF i > Len(victims) \/ Failed(w) THEN w
    ELSE LET f == victims[i]
             a == del_field(w, f)
             u == IF ~f.unique THEN a
                  ELSE append(a, PwOp("drop_index", w.table,
                                      make_index_name(w.table, <<f.column_name>>),
                                      None, FALSE))
             c == IF Failed(u) THEN u
                  ELSE append(u, PwOp("drop_column", w.table, f.column_name, None, TRUE))
         IN  drop_columns_from(c, victims, i + 1)

\* drop_columns had it looked every name up in model._meta.fields
drop_columns_strict(w, byName, names) ==
    LET m == get_model(w, byName)
    IN  IF Failed(m) THEN m
        ELSE IF ~(names \subseteq FieldNames(m.fields)) THEN Raise(m, "KeyError")
        ELSE drop_columns_from(m, SelectSeq(m.fields, LAMBDA f : f.name \in names), 1)

\* Migrator.drop_columns; names is the set of the *names given
drop_columns(w, byName, names) ==
    LET m == get_model(w, byName)
    IN  IF Failed(m) THEN m
        ELSE drop_columns_from(m, SelectSeq(m.fields, LAMBDA f : f.name \in names), 1)

\* rename_column had it given a ForeignKeyField no '_id' suffix
rename_column_plain(w, byName, old_name, new_name) ==
    LET m == get_model(w, byName)
    IN  IF Failed(m) THEN m
        ELSE IF ~HasField(m.fields, old_name) THEN Raise(m, "KeyError")
        ELSE LET f == FieldOf(m.fields, old_name)
                 old == IF f.fk THEN f.column_name ELSE old_name
                 d == del_field(m, f)
                 moved == [f EXCEPT !.name = new_name, !.column_name = new_name]
                 a == [d EXCEPT !.fields = add_field(@, new_name, moved)]
             IN  append(a, PwOp("rename_column", m.table, old, new_name, FALSE))

\* Migrator.rename_column
rename_column(w, byName, old_name, new_name) ==
    LET m == get_model(w, byName)
    IN  IF Failed(m) THEN m
        ELSE IF ~HasField(m.fields, old_name) THEN Raise(m, "KeyError")
        ELSE LET f == FieldOf(m.fields, old_name)
                 old == IF f.fk THEN f.column_name ELSE old_name
                 d == del_field(m, f)
                 moved == [f EXCEPT !.name = new_name, !.column_name = new_name]
                 a == [d EXCEPT !.fields = add_field(@, new_name, moved)]
                 new == IF f.fk THEN new_name \o <<"id">> ELSE new_name
                 s == IF f.fk
                      THEN [a EXCEPT !.fields =
                              SetField(@, new_name, [moved EXCEPT !.column_name = new])]
                      ELSE a
             IN  append(s, PwOp("rename_column", m.table, old, new, FALSE))

\* Migrator.rename_table
rename_table(w, byName, new_name) ==
    LET m == get_model(w, byName)
    IN  IF Failed(m) THEN m
        ELSE IF m.table \notin m.orm THEN Raise(m, "KeyError")
        ELSE append([m EXCEPT !.orm = (@ \ {m.table}) \cup {new_name},
                              !.table = new_name],
                    PwOp("rename_table", m.table, m.table, new_name, FALSE))

RECURSIVE set_null_from(_, _, _, _)
\* the loop of Migrator.add_not_null (null = FALSE) and Migrator.drop_not_null
\* (null = TRUE)
set_null_from(w, names, i, null) ==
    IF i > Len(names) \/ Failed(w) THEN w
    ELSE IF ~HasField(w.fields, names[i]) THEN Raise(w, "KeyError")
    ELSE LET f == FieldOf(w.fields, names[i])
             a == [w EXCEPT !.fields = SetField(@, f.name, [f EXCEPT !.null = null])]
             q == append(a, PwOp(IF null THEN "drop_not_null" ELSE "add_not_null",
                                 w.table, f.column_name, None, FALSE))
         IN  set_null_from(q, names, i + 1, null)

\* Migrator.add_not_null
add_not_null(w, byName, names) ==
    LET m == get_model(w, byName)
    IN  IF Failed(m) THEN m ELSE set_null_from(m, names, 1, FALSE)

\* Migrator.drop_not_null
drop_not_null(w, byName, names) ==
    LET m == get_model(w, byName)
    IN  IF Failed(m) THEN m ELSE set_null_from(m, names, 1, TRUE)

\* Migrator.add_default
add_default(w, byName, name, default) ==
    LET m == get_model(w, byName)
    IN  IF Failed(m) THEN m
        ELSE IF ~HasField(m.fields, name) THEN Raise(m, "KeyError")
        ELSE LET f == FieldOf(m.fields, name)
             IN  append([m EXCEPT !.fields =
                            SetField(@, name, [f EXCEPT !.default = default])],
                        PwOp("apply_default", m.table, name, None, FALSE))

\* ------------------------------------------------------------------ actions
\* The column names each call is made with: a, b and c are declared, d and e
\* are not.
AddNames == {NameA, NameD}
ChangeNames == {NameB, NameD}
DropNames == {NameA, NameB, NameD}
RenameOld == {NameA, NameD}
RenameNew == {NameB, NameE}
\* the *fields add_index and drop_index are called with
IndexArgs == {<<NameA>>, <<NameC>>, <<NameA, NameB>>, <<NameC, NameA>>, <<NameD>>}
NullNames == {NameA, NameD}

NewTableName == <<"n">>

SchemaName == <<"s">>

\* Migrator(database, schema): the database, the schema (None: not given) and
\* the Meta.indexes of the model class migrated
Construction(d, schema, ixs) == [dialect |-> d, schema |-> schema, indexes |-> ixs]

Constructions ==
    {Construction("sqlite", None, ixs) : ixs \in DeclaredIndexes}
    \cup {Construction(d, SchemaName, <<>>) : d \in {"postgres", "sqlite"}}

\* argument lists of one call
NameLists(pool) == UNION {[1..n -> pool] : n \in 1..MaxArgs}

NameSets(pool) == {ns \in SUBSET pool : Cardinality(ns) <= MaxArgs}

\* **fields of one name=field pair
Kwargs(pool) == {<<Kw(nm, d)>> : nm \in pool, d \in FieldDecls}

\* add_columns called with a unique and indexed field
UniqueIndexedAdds == {<<Kw(NameD, UniqueIndexDecl)>>}

\* change_columns called with a unique and indexed field, for a plain column
\* and for a unique column
UniqueIndexedChanges == {<<Kw(NameA, UniqueIndexDecl)>>, <<Kw(NameB, UniqueIndexDecl)>>}

\* the fields change_columns is called with
ChangeKwargs == Kwargs(ChangeNames) \cup UniqueIndexedChanges

Here == World(dialect, orm, table_name, fields, indexes, queue, log)

Call(name, err, names) == [call |-> name, err |-> err, names |-> names]

\* the world after the call becomes the state, whether or not it raised
Result(w) ==
    /\ dialect' = w.dialect
    /\ orm' = w.orm
    /\ table_name' = w.table
    /\ fields' = w.fields
    /\ indexes' = w.indexes
    /\ queue' = w.queue
    /\ log' = w.log

\* a Migrator call other than run()
Commit(w) ==
    calls < MaxCalls /\ calls' = calls + 1 /\ Result(w) /\ UNCHANGED routerVars

Other == scen' = "other" /\ pending' = {}

CreateTable ==
    LET w == create_table(Here)
    IN  /\ Commit(w)
        /\ last' = Call("create_table", w.err, {})
        /\ Other
        /\ UNCHANGED addedIdx

DropTableAt(byName, cascade) ==
    LET w == drop_table(Here, byName, cascade)
    IN  /\ Commit(w)
        /\ last' = Call("drop_table", w.err, {})
        /\ Other
        /\ UNCHANGED addedIdx

DropTable == \E byName \in BOOLEAN, cascade \in BOOLEAN : DropTableAt(byName, cascade)

Python ==
    LET w == python(Here)
    IN  /\ Commit(w)
        /\ last' = Call("python", w.err, {})
        /\ Other
        /\ UNCHANGED addedIdx

Sql ==
    LET w == sql(Here)
    IN  /\ Commit(w)
        /\ last' = Call("sql", w.err, {})
        /\ Other
        /\ UNCHANGED addedIdx

AddColumnsAt(byName, kw) ==
    LET w == add_columns(Here, byName, kw)
        follows == ~Failed(w) /\ scen \in {"fresh", "adding"}
        names == {kw[i].name : i \in 1..Len(kw)}
    IN  /\ Commit(w)
        /\ last' = Call("add_columns", w.err, {})
        /\ scen' = IF follows THEN "adding" ELSE "other"
        /\ pending' = IF follows THEN pending \cup names ELSE {}
        /\ UNCHANGED addedIdx

AddColumns == \E byName \in BOOLEAN, kw \in Kwargs(AddNames) : AddColumnsAt(byName, kw)

ChangeColumnsAt(byName, kw) ==
    LET w == change_columns(Here, byName, kw)
    IN  /\ Commit(w)
        /\ last' = Call("change_columns", w.err, {})
        /\ Other
        /\ UNCHANGED addedIdx

ChangeColumns ==
    \E byName \in BOOLEAN, kw \in Kwargs(ChangeNames) : ChangeColumnsAt(byName, kw)

DropColumnsAt(byName, names) ==
    LET w == drop_columns(Here, byName, names)
        follows == /\ ~Failed(w)
                   /\ scen \in {"adding", "dropping"}
                   /\ names # {}
                   /\ names \subseteq pending
    IN  /\ Commit(w)
        /\ last' = Call("drop_columns", w.err, names)
        /\ scen' = IF follows THEN "dropping" ELSE "other"
        /\ pending' = IF follows THEN pending \ names ELSE {}
        /\ UNCHANGED addedIdx

DropColumns ==
    \E byName \in BOOLEAN, names \in NameSets(DropNames) : DropColumnsAt(byName, names)

RenameColumnAt(byName, old, new) ==
    LET w == rename_column(Here, byName, old, new)
    IN  /\ Commit(w)
        /\ last' = Call("rename_column", w.err, {})
        /\ Other
        /\ UNCHANGED addedIdx

RenameColumn ==
    \E byName \in BOOLEAN, old \in RenameOld, new \in RenameNew :
        RenameColumnAt(byName, old, new)

RenameTableAt(byName) ==
    LET w == rename_table(Here, byName, NewTableName)
    IN  /\ Commit(w)
        /\ last' = Call("rename_table", w.err, {})
        /\ Other
        /\ UNCHANGED addedIdx

RenameTable == \E byName \in BOOLEAN : RenameTableAt(byName)

AddIndex ==
    \E byName \in BOOLEAN, names \in IndexArgs, unique \in BOOLEAN :
        LET w == add_index(Here, byName, names, unique)
        IN  /\ Commit(w)
            /\ last' = Call("add_index", w.err, {})
            /\ addedIdx' = IF Failed(w) THEN addedIdx
                           ELSE addedIdx \cup {w.queue[Len(w.queue)].name}
            /\ Other

DropIndexAt(byName, names) ==
    LET w == drop_index(Here, byName, names)
    IN  /\ Commit(w)
        /\ last' = Call("drop_index", w.err, {})
        /\ addedIdx' = IF byName \/ ~Resolvable(fields, names) THEN addedIdx
                       ELSE addedIdx \
                            {make_index_name(table_name, to_columns(fields, names))}
        /\ Other

DropIndex == \E byName \in BOOLEAN, names \in IndexArgs : DropIndexAt(byName, names)

AddNotNull ==
    \E byName \in BOOLEAN, names \in NameLists(NullNames) :
        LET w == add_not_null(Here, byName, names)
        IN  /\ Commit(w)
            /\ last' = Call("add_not_null", w.err, {})
            /\ Other
            /\ UNCHANGED addedIdx

DropNotNull ==
    \E byName \in BOOLEAN, names \in NameLists(NullNames) :
        LET w == drop_not_null(Here, byName, names)
        IN  /\ Commit(w)
            /\ last' = Call("drop_not_null", w.err, {})
            /\ Other
            /\ UNCHANGED addedIdx

AddDefault ==
    \E byName \in BOOLEAN, name \in NullNames :
        LET w == add_default(Here, byName, name, DefaultV)
        IN  /\ Commit(w)
            /\ last' = Call("add_default", w.err, {})
            /\ Other
            /\ UNCHANGED addedIdx

\* run() while the database rejects the statement of position failAt (0: none)
RunAt(failAt) ==
    LET w == run(Here, failAt)
    IN  /\ Result(w)
        /\ last' = Call("run", w.err, {})
        /\ UNCHANGED <<calls, addedIdx, scen, pending>>
        /\ UNCHANGED routerVars

Run == \E failAt \in 0..Len(queue) : RunAt(failAt)

\* Migration.__init__: the queue of a new Migrator
Migration(w, schema) ==
    IF schema # None THEN append(w, PwOp("select_schema", None, schema, None, FALSE))
    ELSE w

\* Migrator(database, schema): an empty registry; the model class is as declared
MigratorInit(c) ==
    /\ orm = {}
    /\ table_name = TableName
    /\ fields = InitFields
    /\ dialect = c.dialect
    /\ indexes = c.indexes
    /\ queue = Migration(World(c.dialect, {}, TableName, InitFields, c.indexes,
                               <<>>, <<>>), c.schema).queue
    /\ log = <<>>
    /\ last = Call("init", "none", {})
    /\ calls = 0
    /\ addedIdx = {}
    /\ scen = "fresh"
    /\ pending = {}

RCall(name, err, removed, applied) ==
    [call |-> name, err |-> err, removed |-> removed, applied |-> applied]

\* a Migrator used without a Router: no migrations directory, no history
Init ==
    /\ \E c \in Constructions : MigratorInit(c)
    /\ files = {}
    /\ history = <<>>
    /\ rlast = RCall("init", "none", <<>>, 0)

Next ==
    \/ CreateTable
    \/ DropTable
    \/ Python
    \/ Sql
    \/ AddColumns
    \/ ChangeColumns
    \/ DropColumns
    \/ RenameColumn
    \/ RenameTable
    \/ AddIndex
    \/ DropIndex
    \/ AddNotNull
    \/ DropNotNull
    \/ AddDefault
    \/ Run

Spec == Init /\ [][Next]_vars

\* ------------------------------------------------------------------ columns
\* The calls that bring a column descriptor into the model, with fields that
\* are unique and indexed among their arguments.
AddUniqueIndexed ==
    \E byName \in BOOLEAN, kw \in UniqueIndexedAdds : AddColumnsAt(byName, kw)

ChangeToUniqueIndexed ==
    \E byName \in BOOLEAN, kw \in UniqueIndexedChanges : ChangeColumnsAt(byName, kw)

ColumnsNext ==
    \/ CreateTable
    \/ AddColumns
    \/ AddUniqueIndexed
    \/ ChangeColumns
    \/ ChangeToUniqueIndexed
    \/ Run

ColumnsSpec == Init /\ [][ColumnsNext]_vars

\* ------------------------------------------------------------------ Router
\* The Router of spec section 4.3 over the Migrator above: the migrations
\* directory, the history table, and the calls of the command line and of the
\* Router tests.  A migration name is <<number, kind>>; the kind tells what the
\* unit's code does with the Migrator:
\*   table    migrate: create_table(Model)       rollback: drop_table(Model)
\*   cols     migrate: add_columns(Model, d=..)  rollback: drop_columns(Model, 'd')
\*   new      the skeleton written by create(): no Migrator call
\*   initial  the unit written by merge(): create_table(Model)
\*   gone     a name in the history table whose file is not in the directory
Unit(num, kind) == <<num, kind>>

Initial == Unit(1, "initial")

Gone == Unit(0, "gone")

\* the migrations directory a Router is constructed on
InitialFiles == {{}, {Unit(1, "table")}, {Unit(1, "table"), Unit(2, "cols")}}

Range(seq) == {seq[i] : i \in 1..Len(seq)}

\* names in lexical order: the zero-padded number comes first
RECURSIVE sorted(_)
sorted(names) ==
    IF names = {} THEN <<>>
    ELSE LET n == CHOOSE x \in names : \A y \in names : x[1] <= y[1]
         IN  <<n>> \o sorted(names \ {n})

\* Router.todo
todo(fs) == sorted(fs)

\* Router.done
done(h) == h

\* Router.diff
diff(fs, h) == SelectSeq(todo(fs), LAMBDA n : n \notin Range(done(h)))

\* a Router with its Migrator m
Router(m, fs, h) ==
    [m |-> m, files |-> fs, history |-> h, err |-> "none", removed |-> <<>>]

RRaise(r, e) == [r EXCEPT !.err = e]

\* the unit's migrate(migrator, database, fake)
unit_migrate(w, name) ==
    IF name[2] \in {"table", "initial"} THEN create_table(w)
    ELSE IF name[2] = "cols" THEN add_columns(w, FALSE, <<Kw(NameD, PlainDecl)>>)
    ELSE w

\* the unit's rollback(migrator, database, fake)
unit_rollback(w, name) ==
    IF name[2] \in {"table", "initial"} THEN drop_table(w, FALSE, TRUE)
    ELSE IF name[2] = "cols" THEN drop_columns(w, FALSE, {NameD})
    ELSE w

\* seq without its entries equal to name
without(seq, name) == SelectSeq(seq, LAMBDA n : n # name)

\* one migration applied or reverted: the unit's code fills the queue, the
\* Router triggers run(), the history row is written or deleted after it.  In
\* fake mode the queue is not drained and the unit's operations are dropped.
run_one(r, name, fake, downgrade) ==
    IF name \notin r.files THEN RRaise(r, "UnknownMigration")
    ELSE IF fake
    THEN LET u == unit_migrate(r.m, name)
         IN  IF Failed(u) THEN [r EXCEPT !.m = u, !.err = u.err]
             ELSE [r EXCEPT !.m = [u EXCEPT !.queue = r.m.queue],
                            !.history = Append(@, name)]
    ELSE LET u == IF downgrade THEN unit_rollback(r.m, name)
                  ELSE unit_migrate(r.m, name)
             d == IF Failed(u) THEN u ELSE run(u, 0)
         IN  IF Failed(d) THEN [r EXCEPT !.m = d, !.err = d.err]
             ELSE [r EXCEPT !.m = d,
                            !.history = IF downgrade THEN without(@, name)
                                        ELSE Append(@, name)]

RECURSIVE run_each(_, _, _, _)
run_each(r, names, i, fake) ==
    IF i > Len(names) \/ r.err # "none" THEN r
    ELSE run_each(run_one(r, names[i], fake, FALSE), names, i + 1, fake)

\* Router.run(name=None, fake=False)
router_run(r, name, fake) ==
    LET d == diff(r.files, r.history)
    IN  IF name # None /\ name \notin Range(d) THEN RRaise(r, "RouterSequenceError")
        ELSE run_each(r, IF name = None THEN d ELSE <<name>>, 1, fake)

\* Router.rollback(name)
router_rollback(r, name) ==
    IF r.history = <<>> \/ name # r.history[Len(r.history)]
    THEN RRaise(r, "RouterSequenceError")
    ELSE run_one(r, name, FALSE, TRUE)

\* merge() had it left the history table alone
merge_files_only(r) == [r EXCEPT !.files = {Initial}, !.removed = todo(r.files)]

\* Router.merge()
merge(r) ==
    [r EXCEPT !.files = {Initial}, !.history = <<Initial>>, !.removed = todo(r.files)]

\* Router.create(name): the next sequence number
create(r) ==
    LET nums == {n[1] : n \in r.files}
        next == IF nums = {} THEN 1 ELSE (CHOOSE n \in nums : \A k \in nums : k <= n) + 1
    IN  [r EXCEPT !.files = @ \cup {Unit(next, "new")}]

\* get_router: a new Router and a new Migrator on the same directory and
\* database; the model classes are those of the process
get_router(r) == [r EXCEPT !.m = [@ EXCEPT !.orm = {}, !.queue = <<>>, !.err = "none"]]

RECURSIVE rollback_last(_, _)
rollback_last(r, k) ==
    IF k <= 0 \/ r.err # "none" THEN r
    ELSE LET g == get_router(r)
         IN  IF g.history = <<>> THEN RRaise(g, "IndexError")
             ELSE rollback_last(router_rollback(g, g.history[Len(g.history)]), k - 1)

\* cli.rollback(name, count)
cli_rollback(r, name, count) ==
    LET g == get_router(r)
    IN  IF name = None
        THEN IF Len(done(g.history)) < count THEN RRaise(g, "RuntimeError")
             ELSE rollback_last(g, count)
        ELSE router_rollback(g, name)

\* MigrateHistory.create(name=name): the name is the key of the row
history_create(r, name) ==
    IF name \in Range(r.history) THEN RRaise(r, "IntegrityError")
    ELSE [r EXCEPT !.history = Append(@, name)]

\* MigrateHistory.delete().execute()
history_delete(r) == [r EXCEPT !.history = <<>>]

ThisRouter == Router(Here, files, history)

\* the names a call is given: the files, the rows, a name that is neither
Names == files \cup Range(history) \cup {Gone}

RouterResult(r) ==
    /\ Result(r.m)
    /\ files' = r.files
    /\ history' = r.history
    /\ UNCHANGED <<last, addedIdx, scen, pending>>

\* a call that does not reach the Migrator's queue
Free == UNCHANGED calls

\* a call that may fill the Migrator's queue or writes a history row itself
Costly == calls < MaxCalls /\ calls' = calls + 1

Create ==
    LET r == create(ThisRouter)
    IN  /\ Cardinality(files) < MaxMigrations
        /\ \A n \in files : n[1] < MaxMigrations
        /\ RouterResult(r)
        /\ rlast' = RCall("create", r.err, r.removed, 0)
        /\ Free

RouterRunAt(name, fake) ==
    LET r == router_run(ThisRouter, name, fake)
    IN  /\ RouterResult(r)
        /\ rlast' = RCall(IF fake THEN "fake" ELSE "run", r.err, r.removed, 0)
        /\ IF fake THEN Free ELSE Costly

RouterRun == \E name \in Names \cup {None}, fake \in BOOLEAN : RouterRunAt(name, fake)

RollbackAt(name) ==
    LET r == router_rollback(ThisRouter, name)
    IN  /\ RouterResult(r)
        /\ rlast' = RCall("rollback", r.err, r.removed, 0)
        /\ Costly

Rollback == \E name \in Names : RollbackAt(name)

Merge ==
    LET r == merge(ThisRouter)
    IN  /\ RouterResult(r)
        /\ rlast' = RCall("merge", r.err, r.removed, Len(history))
        /\ Free

HistoryCreateAt(name) ==
    LET r == history_create(ThisRouter, name)
    IN  /\ RouterResult(r)
        /\ rlast' = RCall("history_create", r.err, r.removed, 0)
        /\ Costly

HistoryCreate == \E name \in Names : HistoryCreateAt(name)

HistoryDelete ==
    LET r == history_delete(ThisRouter)
    IN  /\ RouterResult(r)
        /\ rlast' = RCall("history_delete", r.err, r.removed, 0)
        /\ Free

CliRollbackAt(count) ==
    LET r == cli_rollback(ThisRouter, None, count)
    IN  /\ RouterResult(r)
        /\ rlast' = RCall("cli_rollback", r.err, r.removed, 0)
        /\ Costly

CliRollback == \E count \in 1..MaxMigrations : CliRollbackAt(count)

\* get_router(directory, database): a Router on a directory of migrations and
\* a database without history
RouterInit ==
    /\ MigratorInit(Construction("sqlite", None, <<>>))
    /\ files \in InitialFiles
    /\ history = <<>>
    /\ rlast = RCall("init", "none", <<>>, 0)

RouterNext ==
    \/ Create
    \/ RouterRun
    \/ Rollback
    \/ Merge
    \/ HistoryCreate
    \/ HistoryDelete
    \/ CliRollback

RouterSpec == RouterInit /\ [][RouterNext]_vars

\* ------------------------------------------------------------------ properties
\* C1: run() drains the queue first in, first out: when the database rejects
\* no statement, the effects performed are state(op1), db(op1), ..., state(opN),
\* db(opN) for the queue op1..opN, whatever the kinds of the operations.
C1_RunAppliesEachOperationInOrder ==
    [][RunAt(0) =>
         log' = log \o [j \in 1..(2 * Len(queue)) |->
                           IF j % 2 = 1 THEN <<"state", queue[(j + 1) \div 2]>>
                           ELSE <<"db", queue[j \div 2]>>]]_vars

\* C2: a run() whose statements the database all accepts returns normally and
\* leaves the queue empty; on an empty queue it changes neither the queue nor
\* the schema state.
C2_RunReturnsAndClearsTheQueue ==
    [][RunAt(0) =>
         /\ last'.err = "none"
         /\ queue' = <<>>
         /\ queue = <<>> => UNCHANGED <<orm, table_name, fields, indexes>>]_vars

C4_DatabaseFailureStopsTheDrain ==
    [][\A k \in 1..Len(queue) :
         RunAt(k) =>
            /\ last'.err = "DatabaseError"
            /\ log' = log \o [j \in 1..(2 * k - 1) |->
                                 IF j % 2 = 1 THEN <<"state", queue[(j + 1) \div 2]>>
                                 ELSE <<"db", queue[j \div 2]>>]]_vars

\* C5: a drop_index that fails with 'index not found' leaves the operation
\* queue and the model's index list as they were before the call.
C5_IndexNotFoundLeavesQueueAndIndexes ==
    [][(last'.call = "drop_index" /\ last'.err = "IndexNotFound") =>
          UNCHANGED <<queue, indexes>>]_vars

\* C6: add_not_null, drop_not_null and change_columns never apply partially: a
\* call that raises leaves columns and queue unchanged, and change_columns of a
\* name that is not a column of the model raises.
C6_UnknownColumnFailsWithoutPartialApplication ==
    [][/\ (/\ last'.call \in {"add_not_null", "drop_not_null", "change_columns"}
           /\ last'.err # "none") => UNCHANGED <<fields, queue>>
       /\ \A kw \in Kwargs(ChangeNames) :
            (ChangeColumnsAt(FALSE, kw) /\ ~HasField(fields, kw[1].name)) =>
                last'.err # "none"]_vars

\* C7: drop_index of the column list add_index was called with before raises
\* no error.
C7_DropOfAnAddedIndexSucceeds ==
    [][\A names \in IndexArgs :
         (/\ DropIndexAt(FALSE, names)
          /\ Resolvable(fields, names)
          /\ make_index_name(table_name, to_columns(fields, names)) \in addedIdx)
         => last'.err = "none"]_vars

\* C8: drop_index of the fields of an index declared in Meta.indexes succeeds,
\* removes that entry and no other from the index list, and queues one DROP
\* INDEX operation named after the table and the columns.
C8_DeclaredIndexIsDropped ==
    [][\A names \in IndexArgs :
         \A pos \in 1..Len(indexes) :
            (/\ DropIndexAt(FALSE, names)
             /\ indexes[pos].parts = names
             /\ \A i \in 1..(pos - 1) : indexes[i].parts # names)
            => /\ last'.err = "none"
               /\ indexes' = pop(indexes, pos)
               /\ queue' = Append(queue,
                                  Op("PlayhouseOperation", "drop_index", table_name,
                                     make_index_name(table_name,
                                                     to_columns(fields, names)),
                                     None, FALSE))]_vars

\* C9: after add_columns calls on the table as created and drop_columns of
\* every name added, with run() after any of them, the model has the columns
\* it had before the first add.
C9_AddThenDropRestoresColumns ==
    (scen = "dropping" /\ pending = {}) => FieldNames(fields) = FieldNames(InitFields)

\* C10: drop_columns raises no error, removes exactly the fields named and
\* leaves every other field as it was, queues operations for the columns
\* removed only (one drop_column each), and with no known name changes nothing.
C10_DropColumnsRemovesExactlyTheNamed ==
    [][\A names \in NameSets(DropNames) :
         (last'.call = "drop_columns" /\ DropColumnsAt(FALSE, names)) =>
            LET gone == SelectSeq(fields, LAMBDA f : f.name \in names)
                new == SubSeq(queue', Len(queue) + 1, Len(queue'))
            IN  /\ last'.err = "none"
                /\ fields' = SelectSeq(fields, LAMBDA f : f.name \notin names)
                /\ SubSeq(queue', 1, Len(queue)) = queue
                /\ \A i \in 1..Len(new) :
                     /\ new[i].method \in {"drop_column", "drop_index"}
                     /\ \E j \in 1..Len(gone) :
                          new[i].name \in
                             {gone[j].column_name,
                              make_index_name(table_name, <<gone[j].column_name>>)}
                /\ \A j \in 1..Len(gone) :
                     Cardinality({i \in 1..Len(new) :
                                    /\ new[i].method = "drop_column"
                                    /\ new[i].name = gone[j].column_name}) = 1
                /\ UNCHANGED <<orm, table_name, indexes, log>>
                /\ names \cap FieldNames(fields) = {} => UNCHANGED <<fields, queue>>]_vars

\* C10: the first call was drop_columns of a, a column, and d, not one
C10_DroppedAKnownAndAnUnknownName ==
    /\ last.call = "drop_columns"
    /\ last.err = "none"
    /\ last.names = {NameA, NameD}
    /\ calls = 1
    /\ FieldNames(fields) = FieldNames(InitFields) \ {NameA}

\* C11: as soon as add_columns has returned, and before any run(), the name
\* added is a field of the model, bound as add_field binds it; as soon as
\* drop_columns has returned, none of the names given is a field of the model.
C11_AddAndDropShowInTheModelAtTheCall ==
    [][/\ \A byName \in BOOLEAN, kw \in Kwargs(AddNames) :
            (/\ last'.call = "add_columns"
             /\ last'.err = "none"
             /\ AddColumnsAt(byName, kw))
            => /\ HasField(fields', kw[1].name)
               /\ FieldOf(fields', kw[1].name) = Bind(kw[1].name, kw[1].field)
               /\ log' = log
       /\ (last'.call = "drop_columns" /\ last'.err = "none")
            => last'.names \cap FieldNames(fields') = {}]_vars

\* C11: the first call was add_columns of d, which is a field now, and run()
\* has performed nothing
C11_AddedColumnInTheModelBeforeRun ==
    /\ last.call = "add_columns"
    /\ last.err = "none"
    /\ calls = 1
    /\ HasField(fields, NameD)
    /\ log = <<>>

\* C12: as soon as create_table has returned, without a run(), the table is in
\* the registry.
C12_CreateTableRegistersAtTheCall ==
    [][(last'.call = "create_table" /\ last'.err = "none") =>
          table_name' \in orm']_vars

\* C13: create_table of a table that was created before (it is registered, or
\* its CreateTable is queued) raises, and leaves registry and queue unchanged.
C13_SecondCreateTableIsRejected ==
    [][(/\ last'.call = "create_table"
        /\ \/ table_name \in orm
           \/ \E i \in 1..Len(queue) :
                queue[i].cls = "CreateTable" /\ queue[i].table = table_name)
       => (last'.err # "none" /\ UNCHANGED <<orm, queue>>)]_vars

\* C14 as stated: rename_column of an existing column to any name makes new a
\* field and old none, leaves every other field unchanged and queues one
\* rename_column operation; a ForeignKeyField's column names carry '_id'.
C14_RenameColumnMovesTheDescriptorToAnyName ==
    [][\A old \in RenameOld, new \in RenameNew :
         (/\ last'.call = "rename_column"
          /\ RenameColumnAt(FALSE, old, new)
          /\ HasField(fields, old))
         => LET f == FieldOf(fields, old)
                op == queue'[Len(queue')]
            IN  /\ last'.err = "none"
                /\ HasField(fields', new)
                /\ ~HasField(fields', old)
                /\ \A i \in 1..Len(fields) :
                     fields[i].name # old =>
                        \E j \in 1..Len(fields') : fields'[j] = fields[i]
                /\ queue' = Append(queue, op)
                /\ op.method = "rename_column"
                /\ f.fk => (op.name = f.column_name /\ op.extra = new \o <<"id">>)]_vars

\* C14 amended: the same when new is not the name of a field of the model; the
\* field moved keeps its attributes, and the operation renames old to new for a
\* field that is not a ForeignKeyField.
C14_RenameColumnMovesTheDescriptorToAFreeName ==
    [][\A old \in RenameOld, new \in RenameNew :
         (/\ last'.call = "rename_column"
          /\ RenameColumnAt(FALSE, old, new)
          /\ HasField(fields, old)
          /\ ~HasField(fields, new))
         => LET f == FieldOf(fields, old)
                op == queue'[Len(queue')]
            IN  /\ last'.err = "none"
                /\ FieldNames(fields') = (FieldNames(fields) \ {old}) \cup {new}
                /\ \A i \in 1..Len(fields) :
                     fields[i].name # old =>
                        \E j \in 1..Len(fields') : fields'[j] = fields[i]
                /\ FieldOf(fields', new) =
                     [f EXCEPT !.name = new,
                               !.column_name = IF f.fk THEN new \o <<"id">> ELSE new]
                /\ queue' = Append(queue, op)
                /\ op.cls = "PlayhouseOperation"
                /\ op.method = "rename_column"
                /\ op.table = table_name
                /\ op.name = (IF f.fk THEN f.column_name ELSE old)
                /\ op.extra = (IF f.fk THEN new \o <<"id">> ELSE new)
                /\ UNCHANGED <<orm, table_name, indexes, log>>]_vars

\* C14: the ForeignKeyField d was renamed to e: the field e is stored in e_id
\* and the operation renames d_id
C14_RenamedAForeignKey ==
    /\ last.call = "rename_column"
    /\ last.err = "none"
    /\ HasField(fields, NameE)
    /\ FieldOf(fields, NameE).fk
    /\ FieldOf(fields, NameE).column_name = <<"e", "id">>
    /\ queue[Len(queue)].name = <<"d", "id">>

\* C15: rename_table of a table that was created raises no error and re-keys
\* the registry: the old name is no entry, the new name is one, and the model's
\* table name is the new name.
C15_RenameTableReKeysTheRegistry ==
    [][\A byName \in BOOLEAN :
         (/\ last'.call = "rename_table"
          /\ RenameTableAt(byName)
          /\ \/ table_name \in orm
             \/ \E i \in 1..Len(queue) : queue[i].cls = "CreateTable")
         => /\ last'.err = "none"
            /\ table_name' = NewTableName
            /\ orm' = (orm \ {table_name}) \cup {NewTableName}]_vars

\* C16: change_columns of a unique field to a field that is not unique, on a
\* model without Meta.indexes, raises no error, queues the drop of the unique
\* index of the column and leaves Meta.indexes empty.
C16_UniqueFlagDroppedWithoutMetaIndexes ==
    [][\A kw \in Kwargs(ChangeNames) :
         (/\ last'.call = "change_columns"
          /\ ChangeColumnsAt(FALSE, kw)
          /\ indexes = <<>>
          /\ HasField(fields, kw[1].name)
          /\ FieldOf(fields, kw[1].name).unique
          /\ ~FieldOf(fields, kw[1].name).fk
          /\ ~kw[1].field.unique
          /\ ~kw[1].field.fk)
         => /\ last'.err = "none"
            /\ indexes' = <<>>
            /\ \E i \in (Len(queue) + 1)..Len(queue') :
                 /\ queue'[i].method = "drop_index"
                 /\ queue'[i].name =
                      make_index_name(table_name,
                                      <<Bind(kw[1].name, kw[1].field).column_name>>)]_vars

\* C17: python() raises no error, queues exactly one operation and performs
\* nothing; neither it nor a run() of a queue that holds its operation changes
\* registry, columns or indexes.
C17_PythonQueuesOneOperation ==
    [][/\ last'.call = "python" =>
            /\ last'.err = "none"
            /\ Len(queue') = Len(queue) + 1
            /\ UNCHANGED <<orm, table_name, fields, indexes, log>>
       /\ (/\ RunAt(0)
           /\ \E i \in 1..Len(queue) : queue[i].method = "python")
          => (last'.err = "none" /\ UNCHANGED <<orm, table_name, fields, indexes>>)]_vars

\* C18: sql() queues exactly one operation and changes nothing else; a run()
\* the database accepts executes the statement, returns normally, and leaves
\* registry, columns and indexes as they were.
C18_SqlLeavesTheModelUntouched ==
    [][/\ last'.call = "sql" =>
            /\ last'.err = "none"
            /\ Len(queue') = Len(queue) + 1
            /\ UNCHANGED <<orm, table_name, fields, indexes, log>>
       /\ \A i \in 1..Len(queue) :
            (/\ RunAt(0)
             /\ queue[i].method = "sql"
             /\ \A j \in 1..Len(queue) : queue[j].method \in {"sql", "select_schema"})
            => /\ last'.err = "none"
               /\ \E j \in (Len(log) + 1)..Len(log') : log'[j] = <<"db", queue[i]>>
               /\ UNCHANGED <<orm, table_name, fields, indexes>>]_vars

\* C19: drop_table of a table that was created raises no error, takes the
\* table out of the registry and queues one drop_table operation with the
\* cascade flag (without it on SQLite).
C19_DropTableUnregistersAndQueues ==
    [][\A cascade \in BOOLEAN :
         (/\ last'.call = "drop_table"
          /\ DropTableAt(FALSE, cascade)
          /\ \/ table_name \in orm
             \/ \E i \in 1..Len(queue) : queue[i].cls = "CreateTable")
         => /\ last'.err = "none"
            /\ table_name \notin orm'
            /\ Len(queue') = Len(queue) + 1
            /\ queue'[Len(queue')].method = "drop_table"
            /\ queue'[Len(queue')].flag = (dialect # "sqlite" /\ cascade)]_vars

\* C20: on a Migrator made with a schema, the first statement a run() executes
\* is the select_schema one on PostgreSQL; on another database the run() ends
\* with NotImplementedError.
C20_RunSelectsTheSchemaFirst ==
    [][(/\ RunAt(0)
        /\ queue # <<>>
        /\ queue[1].method = "select_schema")
       => IF dialect = "postgres"
          THEN \E j \in (Len(log) + 1)..Len(log') :
                 /\ log'[j] = <<"db", queue[1]>>
                 /\ \A k \in (Len(log) + 1)..(j - 1) : log'[k][1] # "db"
          ELSE last'.err = "NotImplementedError"]_vars

\* C21: no column marked both unique and indexed is ever in the model: a call
\* that brings such a field (create_table, add_columns, change_columns) is
\* rejected and leaves the model without it.
C21_NoUniqueIndexedColumnInTheModel ==
    \A i \in 1..Len(fields) : ~(fields[i].unique /\ fields[i].index)

\* the operations a call has queued
Queued(before, after) == SubSeq(after, Len(before) + 1, Len(after))

\* the positions of the operations of one method
At(ops, method) == {i \in 1..Len(ops) : ops[i].method = method}

\* C29: change_columns of an existing column queues: first the drop of the
\* foreign-key constraint, if and only if the old column was a relation; next
\* a rename_column, if and only if the column name changes; both before the
\* alter or the add of a constraint; and for a new relation type one
\* add_foreign_key_constraint and no change_column, for any other type one
\* change_column and no add_foreign_key_constraint.
C29_ChangeColumnsQueuesInFixedOrder ==
    [][\A kw \in ChangeKwargs :
         (/\ last'.call = "change_columns"
          /\ ChangeColumnsAt(FALSE, kw)
          /\ HasField(fields, kw[1].name))
         => LET old == FieldOf(fields, kw[1].name)
                f == Bind(kw[1].name, kw[1].field)
                ops == Queued(queue, queue')
                drops == At(ops, "drop_foreign_key_constraint")
                renames == At(ops, "rename_column")
                alters == At(ops, "change_column")
                adds == At(ops, "add_foreign_key_constraint")
            IN  /\ drops = IF old.fk THEN {1} ELSE {}
                /\ renames = IF old.column_name = f.column_name THEN {}
                             ELSE IF old.fk THEN {2} ELSE {1}
                /\ \A i \in drops \cup renames, j \in alters \cup adds : i < j
                /\ IF f.fk THEN Cardinality(adds) = 1 /\ alters = {}
                   ELSE Cardinality(alters) = 1 /\ adds = {}]_vars

\* a relation column was changed to a plain one under another column name
C29_DroppedRenamedAltered ==
    /\ last.call = "change_columns"
    /\ last.err = "none"
    /\ \E i \in 1..(Len(queue) - 2) :
         /\ queue[i].method = "drop_foreign_key_constraint"
         /\ queue[i + 1].method = "rename_column"
         /\ queue[i + 2].method = "change_column"

\* position of a name in a list of names without repetition
Pos(seq, name) == CHOOSE i \in 1..Len(seq) : seq[i] = name

\* todo is the union of done and diff, done and diff share no name, and diff
\* lists the names of todo that are not in done, each once, in todo's order
Partitioned(t, d, p) ==
    /\ Range(t) = Range(d) \cup Range(p)
    /\ Range(d) \cap Range(p) = {}
    /\ Range(p) = Range(t) \ Range(d)
    /\ \A i, j \in 1..Len(p) : i < j => Pos(t, p[i]) < Pos(t, p[j])

\* C22: in every Router state, history rows inserted by hand included, todo is
\* the union of done and diff, done and diff share no name, and diff lists the
\* names of todo not in done in todo's order.
C22_TodoIsDoneAndDiff ==
    Partitioned(todo(files), done(history), diff(files, history))

\* C22 (amended): the same in every Router state in which no history row
\* names a migration that was never discovered: create, run, fake run,
\* rollback, merge, row deletion and the insertion of rows for discovered
\* migrations keep it.
C22_TodoIsDoneAndDiffOfDiscoveredNames ==
    Gone \notin Range(history)
    => Partitioned(todo(files), done(history), diff(files, history))

\* a unit was created after a merge: one applied, one pending
C22_CreatedAfterMerge ==
    /\ rlast.call = "create"
    /\ history = <<Initial>>
    /\ diff(files, history) = <<Unit(2, "new")>>

\* C23: rollback(name) of an applied migration that is not done[-1] is rejected
\* with a sequence error, nothing performed, done unchanged; rollback of
\* done[-1] succeeds and removes exactly the row of name.
C23_RollbackOnlyOfTheLast ==
    [][\A name \in Names :
         (/\ rlast'.call = "rollback"
          /\ RollbackAt(name)
          /\ name \in Range(history)
          /\ name \in files)
         => IF name = history[Len(history)]
            THEN /\ rlast'.err = "none"
                 /\ history' = SubSeq(history, 1, Len(history) - 1)
            ELSE /\ rlast'.err = "RouterSequenceError"
                 /\ history' = history
                 /\ log' = log
                 /\ queue' = queue]_vars

\* C24: with done not empty, rollback(done[-1]) and then run(name) of the same
\* migration both succeed and leave done, and diff, as they were.
C24_RollbackThenRunRestoresDone ==
    (history # <<>> /\ history[Len(history)] \in files)
    => LET name == history[Len(history)]
           back == router_rollback(ThisRouter, name)
           again == router_run(back, name, FALSE)
       IN  /\ back.err = "none"
           /\ again.err = "none"
           /\ done(again.history) = done(history)
           /\ diff(again.files, again.history) = diff(files, history)

C26_RunAppliesThePendingInOrder ==
    [][/\ (/\ rlast'.call = "run"
           /\ RouterRunAt(None, FALSE)
           /\ Range(history) \subseteq files)
          => /\ rlast'.err = "none"
             /\ history' = history \o diff(files, history)
             /\ diff(files', history') = <<>>
             /\ Range(done(history')) = Range(todo(files'))
       /\ \A name \in Names, fake \in BOOLEAN :
            (/\ rlast'.call \in {"run", "fake"}
             /\ RouterRunAt(name, fake)
             /\ name \notin Range(diff(files, history)))
            => /\ rlast'.err = "RouterSequenceError"
               /\ history' = history]_vars

C28_CliRollbackOfTheLastN ==
    [][\A count \in 1..MaxMigrations :
         (/\ rlast'.call = "cli_rollback"
          /\ CliRollbackAt(count)
          /\ Range(history) \subseteq files)
         => IF Len(history) < count
            THEN /\ rlast'.err = "RuntimeError"
                 /\ history' = history
            ELSE /\ rlast'.err = "none"
                 /\ history' = SubSeq(history, 1, Len(history) - count)]_vars

====
